---------------------------- MODULE Spec2Model ----------------------------
(***************************************************************************)
(* A model of the segmentation-and-annotation engine of src/src/App.vue:   *)
(* the component state (ccCedict, csvDictionary, scriptInput,              *)
(* processedOutput, unknownWords), parseCsvData, and processScript with    *)
(* its scan loop taken one iteration at a time.                            *)
(*                                                                         *)
(* A JavaScript string is a sequence of characters (one-character TLA+     *)
(* strings); a JavaScript object used as a dictionary is a sequence of     *)
(* [key, value] pairs in the object's key enumeration order; a value that  *)
(* may be undefined, an array or a plain object is a record tagged by js.  *)
(***************************************************************************)
EXTENDS Integers, Sequences, FiniteSets, TLC

VARIABLES
    ccCedict,         \* ref<Dictionary>: the Lexicon
    csvDictionary,    \* ref<CsvDictionary>: the CurriculumLexicon
    scriptInput,      \* ref(''): the text area's content
    processedOutput,  \* ref<ProcessedSegment[]>
    unknownWords,     \* ref<UnknownWord[]>
    pc,               \* "idle" (no handler running) or "scan" (inside the while loop)
    scriptText,       \* processScript's local: the text being scanned
    cedictWords,      \* processScript's local: the Lexicon keys, longest first
    results,          \* processScript's local
    unknownSet,       \* processScript's local Set<string>, in insertion order
    i,                \* processScript's local: the cursor
    log,              \* history: one record per loop iteration of the current run
    outcome,          \* history: how the last call of processScript ended
    before,           \* history: processedOutput and unknownWords when the last call began
    clicksLeft        \* the clicks on Process Script the model still allows

vars == << ccCedict, csvDictionary, scriptInput, processedOutput, unknownWords,
           pc, scriptText, cedictWords, results, unknownSet, i, log, outcome,
           before, clicksLeft >>

locals == << scriptText, cedictWords, results, unknownSet, i, log >>

inputs == << ccCedict, csvDictionary, scriptInput >>

----------------------------------------------------------------------------
(* Bounds of the model. *)

MaxTextLen == 3

MaxCalls == 2

----------------------------------------------------------------------------
(* Characters and strings. *)

Chars == {"n", "h", "a", " ", "\n"}

Undefined == [js |-> "undefined"]

Arr(items) == [js |-> "array", items |-> items]

Obj(fields) == [js |-> "object", fields |-> fields]

\* scriptText[i] == '\n'
IsNewline(c) == c = "\n"

\* scriptText[i].match(/[a-z]/i)
IsLatin(c) == c \in {"a"}

\* !scriptText[i].trim()
IsBlank(c) == c \in {" ", "\n"}

\* String.prototype.substring(from, to), 0-based, to exclusive
Substring(s, from, to) == [k \in 1..(to - from) |-> s[from + k]]

\* String.prototype.startsWith(word, at), 0-based at
StartsWith(s, word, at) ==
    /\ at + Len(word) <= Len(s)
    /\ \A k \in 1..Len(word) : s[at + k] = word[k]


----------------------------------------------------------------------------
(* Dictionaries: a JavaScript object is a sequence of [key, value] pairs   *)
(* with distinct keys, in key enumeration (insertion) order.               *)

\* Object.keys(dict)
Keys(dict) == [k \in 1..Len(dict) |-> dict[k].key]

\* dict[word], undefined when word is no key
Get(dict, word) ==
    IF \E k \in 1..Len(dict) : dict[k].key = word
    THEN (CHOOSE e \in {dict[k] : k \in 1..Len(dict)} : e.key = word).value
    ELSE Undefined

\* the truthiness of dict[word]: an array is truthy, undefined is not
Has(dict, word) == Get(dict, word).js # "undefined"

\* newDictionary[simplified].push(entry), after creating the list when absent
Push(dict, word, entry) ==
    IF Has(dict, word)
    THEN [k \in 1..Len(dict) |->
            IF dict[k].key = word
            THEN [key |-> word, value |-> Arr(Append(dict[k].value.items, entry))]
            ELSE dict[k]]
    ELSE Append(dict, [key |-> word, value |-> Arr(<<entry>>)])

\* String.prototype.trim()
RECURSIVE Trim(_)
Trim(s) ==
    IF s = << >> THEN s
    ELSE IF IsBlank(Head(s)) THEN Trim(Tail(s))
    ELSE IF IsBlank(s[Len(s)]) THEN Trim(SubSeq(s, 1, Len(s) - 1))
    ELSE s

\* parseCsvData's forEach over the parsed rows, folded from the left
RECURSIVE ParseRows(_, _)
ParseRows(rows, newDictionary) ==
    IF rows = << >> THEN newDictionary
    ELSE LET entry_raw == Head(rows)
             simplified == entry_raw.Simplified
             entry == [chapter  |-> Trim(entry_raw.Chapter),
                       pinyin   |-> Trim(entry_raw.Pinyin),
                       category |-> Trim(entry_raw.Category),
                       meaning  |-> Trim(entry_raw.Meaning)]
         IN  ParseRows(Tail(rows),
                       IF simplified # << >>
                       THEN Push(newDictionary, simplified, entry)
                       ELSE newDictionary)

\* insertion of one key into a list kept longest first; equal lengths keep
\* their order (Array.prototype.sort is stable)
RECURSIVE InsertByLength(_, _)
InsertByLength(sorted, word) ==
    IF sorted = << >> THEN << word >>
    ELSE IF Len(Head(sorted)) >= Len(word)
         THEN << Head(sorted) >> \o InsertByLength(Tail(sorted), word)
         ELSE << word >> \o sorted

\* the keys left in enumeration order
SortOmitted(words) == words

\* Object.keys(ccCedict.value).sort((a, b) => b.length - a.length)
RECURSIVE SortLongestFirst(_)
SortLongestFirst(words) ==
    IF words = << >> THEN << >>
    ELSE InsertByLength(SortLongestFirst(SubSeq(words, 1, Len(words) - 1)),
                        words[Len(words)])

\* the first word of words, in order, that text starts with at cursor at;
\* the empty string when there is none (no key is empty)
RECURSIVE FirstMatch(_, _, _)
FirstMatch(words, text, at) ==
    IF words = << >> THEN << >>
    ELSE IF StartsWith(text, Head(words), at) THEN Head(words)
    ELSE FirstMatch(Tail(words), text, at)

\* GetSegmentsInCsv's for loop from split point k on; null is the empty
\* sequence (the function returns no empty array)
RECURSIVE SplitFrom(_, _, _)
SplitFrom(csv, word, k) ==
    IF k >= Len(word) THEN << >>
    ELSE LET left == Substring(word, 0, k)
             right == Substring(word, k, Len(word))
         IN  IF Has(csv, left) /\ Has(csv, right)
             THEN << left, right >>
             ELSE SplitFrom(csv, word, k + 1)

\* the for loop run from the last split point down
RECURSIVE SplitDownFrom(_, _, _)
SplitDownFrom(csv, word, k) ==
    IF k < 1 THEN << >>
    ELSE LET left == Substring(word, 0, k)
             right == Substring(word, k, Len(word))
         IN  IF Has(csv, left) /\ Has(csv, right)
             THEN << left, right >>
             ELSE SplitDownFrom(csv, word, k - 1)

\* the last valid split instead of the first
GetSegmentsLastSplit(csv, word) ==
    IF Has(csv, word) THEN << word >>
    ELSE SplitDownFrom(csv, word, Len(word) - 1)

\* the direct match left out
GetSegmentsSplitOnly(csv, word) == SplitFrom(csv, word, 1)

\* GetSegmentsInCsv(word)
GetSegmentsInCsv(csv, word) ==
    IF Has(csv, word) THEN << word >>
    ELSE SplitFrom(csv, word, 1)

----------------------------------------------------------------------------
(* The segments and records processScript builds. *)

\* { text: 'Error: Dictionary not loaded or empty.', type: 'not-found' };
\* the message is one token
ErrorSegment ==
    [text |-> << "Error: Dictionary not loaded or empty." >>,
     type |-> "not-found", data |-> Undefined]

\* the error segment assigned instead of pushed
ReplaceByError(output) == << ErrorSegment >>

\* processedOutput.value.push({ text: 'Error: ...', type: 'not-found' })
PushError(output) == Append(output, ErrorSegment)

\* { text: '\n', type: 'unknown' }
NewlineSegment == [text |-> << "\n" >>, type |-> "unknown", data |-> Undefined]

\* { text: scriptText[i], data: {pinyin: scriptText[i]}, type: 'found' }
LatinSegment(c) ==
    [text |-> << c >>, type |-> "found", data |-> Obj([pinyin |-> << c >>])]

\* the entry list taken from the Lexicon
FoundSegmentFromLexicon(csv, segment) ==
    [text |-> segment, type |-> "found", data |-> Get(ccCedict, segment)]

\* { text: segment, type: 'found', data: csvDictionary.value[segment] }
FoundSegment(csv, segment) ==
    [text |-> segment, type |-> "found", data |-> Get(csv, segment)]

\* only the first of validSegments pushed
FoundSegmentsFirstOnly(csv, validSegments) ==
    << FoundSegment(csv, validSegments[1]) >>

\* the for loop over validSegments
FoundSegments(csv, validSegments) ==
    [k \in 1..Len(validSegments) |-> FoundSegment(csv, validSegments[k])]

\* the character under the cursor pushed instead of the word
NotFoundSegmentFirstChar(cedict, word) ==
    [text |-> << word[1] >>, type |-> "not-found", data |-> Get(cedict, word)]

\* { text: word, type: 'not-found', data: ccCedict.value[word] }
NotFoundSegment(cedict, word) ==
    [text |-> word, type |-> "not-found", data |-> Get(cedict, word)]

\* an array push in place of Set.prototype.add
SetAddAlways(set, word) == Append(set, word)

\* Set.prototype.add: a Set keeps insertion order and no duplicate
SetAdd(set, word) ==
    IF \E k \in 1..Len(set) : set[k] = word THEN set ELSE Append(set, word)

\* ccCedict.value[word]?.[0]?.pinyin || "" (and the same for meaning)
FirstEntry(cedict, word, field) ==
    LET value == Get(cedict, word)
    IN  IF value.js = "array" /\ Len(value.items) >= 1
        THEN value.items[1][field]
        ELSE << >>

\* Array.from(unknownSet).map((word, index) => ({index: index + 1, ...}))
UnknownWordsOf(cedict, set) ==
    [k \in 1..Len(set) |->
        [index   |-> (k - 1) + 1,
         word    |-> set[k],
         pinyin  |-> FirstEntry(cedict, set[k], "pinyin"),
         meaning |-> FirstEntry(cedict, set[k], "meaning")]]

\* the character under the cursor, scriptText[i]
Cur == scriptText[i + 1]

\* the word the Lexicon loop stops at, the empty string when matchFound
\* stays false
LexiconWord == FirstMatch(cedictWords, scriptText, i)

\* the word the for-in loop over csvDictionary stops at
CurriculumWord == FirstMatch(Keys(csvDictionary), scriptText, i)

\* i += word.length, off by one
AdvanceShort(at, word) == at + Len(word) - 1

\* i += word.length
Advance(at, word) == at + Len(word)

\* one iteration of the while loop, as the history records it
Iteration(branch, len, emitted) ==
    [at |-> i, len |-> len, branch |-> branch, emitted |-> emitted]

----------------------------------------------------------------------------
(* The inputs the model draws from. *)

\* the sequences over S of length at most n
SeqsUpTo(S, n) == UNION {[1..m -> S] : m \in 0..n}

\* those without a repeated element
DistinctSeqsUpTo(S, n) ==
    {s \in SeqsUpTo(S, n) : \A a, b \in 1..Len(s) : a # b => s[a] # s[b]}

Texts == SeqsUpTo(Chars, MaxTextLen)

LexiconWords == { << "n" >>, << "n", "h" >>, << "n", "n", "n" >>, << "a", "n" >> }

CurriculumWords ==
    { << "n" >>, << "h" >>, << "n", "n" >>, << "n", "h" >>, << "a", "n" >> }

\* a Lexicon entry list: two readings per word
CedictEntries(word) ==
    << [pinyin |-> << "p1" >> \o word, meaning |-> << "m1" >> \o word],
       [pinyin |-> << "p2" >> \o word, meaning |-> << "m2" >> \o word] >>

\* the object JSON.parse yields for the given keys, in that order
Lexicon(keys) ==
    [k \in 1..Len(keys) |-> [key |-> keys[k], value |-> Arr(CedictEntries(keys[k]))]]

Lexicons == {Lexicon(keys) : keys \in DistinctSeqsUpTo(LexiconWords, 2)}

\* a parsed CSV row; the fields carry the blanks trim removes
Row(word) ==
    [Simplified |-> word,
     Chapter    |-> << " ", "1" >>,
     Pinyin     |-> << "p" >> \o word \o << " " >>,
     Category   |-> << "c" >>,
     Meaning    |-> << "\n", "m" >> \o word]

CsvInputs == DistinctSeqsUpTo({Row(word) : word \in CurriculumWords}, 2)

Curricula == {ParseRows(rows, << >>) : rows \in CsvInputs}

----------------------------------------------------------------------------
(* The state after construction, and the handlers. *)

Constructed ==
    /\ processedOutput = << >>
    /\ unknownWords = << >>
    /\ pc = "idle"
    /\ scriptText = << >>
    /\ cedictWords = << >>
    /\ results = << >>
    /\ unknownSet = << >>
    /\ i = 0
    /\ log = << >>
    /\ outcome = "none"
    /\ before = [processedOutput |-> << >>, unknownWords |-> << >>]

\* one call of the segmenter on inputs drawn from the bounded sets
Init ==
    /\ ccCedict \in Lexicons
    /\ csvDictionary \in Curricula
    /\ scriptInput \in Texts
    /\ clicksLeft = 1
    /\ Constructed

\* processScript with Object.keys(ccCedict.value).length = 0
DictionaryNotLoaded ==
    /\ pc = "idle"
    /\ clicksLeft > 0
    /\ Len(Keys(ccCedict)) = 0
    /\ processedOutput' = PushError(processedOutput)
    /\ outcome' = "error"
    /\ before' = [processedOutput |-> processedOutput, unknownWords |-> unknownWords]
    /\ clicksLeft' = clicksLeft - 1
    /\ UNCHANGED << inputs, unknownWords, pc, locals >>

\* processScript up to the while loop
Begin ==
    /\ pc = "idle"
    /\ clicksLeft > 0
    /\ Len(Keys(ccCedict)) # 0
    /\ scriptText' = scriptInput
    /\ cedictWords' = SortLongestFirst(Keys(ccCedict))
    /\ results' = << >>
    /\ unknownSet' = << >>
    /\ i' = 0
    /\ log' = << >>
    /\ pc' = "scan"
    /\ outcome' = "running"
    /\ before' = [processedOutput |-> processedOutput, unknownWords |-> unknownWords]
    /\ clicksLeft' = clicksLeft - 1
    /\ UNCHANGED << inputs, processedOutput, unknownWords >>

InLoop == pc = "scan" /\ i < Len(scriptText)

frame == << inputs, processedOutput, unknownWords, pc, scriptText, cedictWords,
            outcome, before, clicksLeft >>

Newline ==
    /\ InLoop
    /\ IsNewline(Cur)
    /\ results' = Append(results, NewlineSegment)
    /\ i' = i + 1
    /\ log' = Append(log, Iteration("newline", 1, 1))
    /\ UNCHANGED << frame, unknownSet >>

Latin ==
    /\ InLoop
    /\ ~IsNewline(Cur)
    /\ IsLatin(Cur)
    /\ results' = Append(results, LatinSegment(Cur))
    /\ i' = i + 1
    /\ log' = Append(log, Iteration("latin", 1, 1))
    /\ UNCHANGED << frame, unknownSet >>

Whitespace ==
    /\ InLoop
    /\ ~IsNewline(Cur)
    /\ ~IsLatin(Cur)
    /\ IsBlank(Cur)
    /\ i' = i + 1
    /\ log' = Append(log, Iteration("whitespace", 1, 0))
    /\ UNCHANGED << frame, results, unknownSet >>

AtWord == InLoop /\ ~IsNewline(Cur) /\ ~IsLatin(Cur) /\ ~IsBlank(Cur)

LexiconMatch ==
    /\ AtWord
    /\ LexiconWord # << >>
    /\ LET word == LexiconWord
           validSegments == GetSegmentsInCsv(csvDictionary, word)
       IN  /\ IF validSegments # << >>
              THEN /\ results' = results \o FoundSegments(csvDictionary, validSegments)
                   /\ unknownSet' = unknownSet
              ELSE /\ results' = Append(results, NotFoundSegment(ccCedict, word))
                   /\ unknownSet' = SetAdd(unknownSet, word)
           /\ i' = Advance(i, word)
           /\ log' = Append(log, Iteration("lexicon", Len(word),
                         IF validSegments # << >> THEN Len(validSegments) ELSE 1))
    /\ UNCHANGED frame

CurriculumMatch ==
    /\ AtWord
    /\ LexiconWord = << >>
    /\ CurriculumWord # << >>
    /\ LET word == CurriculumWord
       IN  /\ results' = Append(results, FoundSegment(csvDictionary, word))
           /\ i' = Advance(i, word)
           /\ log' = Append(log, Iteration("curriculum", Len(word), 1))
    /\ UNCHANGED << frame, unknownSet >>

NoMatchSkip ==
    /\ AtWord
    /\ LexiconWord = << >>
    /\ CurriculumWord = << >>
    /\ i' = i + 1
    /\ log' = Append(log, Iteration("skip", 1, 0))
    /\ UNCHANGED << frame, results, unknownSet >>

\* processScript after the while loop
Finish ==
    /\ pc = "scan"
    /\ ~(i < Len(scriptText))
    /\ processedOutput' = results
    /\ unknownWords' = UnknownWordsOf(ccCedict, unknownSet)
    /\ pc' = "idle"
    /\ outcome' = "ok"
    /\ UNCHANGED << inputs, locals, before, clicksLeft >>

\* the steps of a running call
ScanStep ==
    \/ Newline
    \/ Latin
    \/ Whitespace
    \/ LexiconMatch
    \/ CurriculumMatch
    \/ NoMatchSkip
    \/ Finish

Next ==
    \/ DictionaryNotLoaded
    \/ Begin
    \/ ScanStep

Spec == Init /\ [][Next]_vars

\* the curricula of the fair specification
ScanCsvInputs ==
    { << >>, << Row(<< "h" >>) >>, << Row(<< "n", "h" >>) >>,
      << Row(<< "n" >>), Row(<< "n", "n" >>) >> }

InitScan ==
    /\ ccCedict \in Lexicons
    /\ csvDictionary \in {ParseRows(rows, << >>) : rows \in ScanCsvInputs}
    /\ scriptInput \in Texts
    /\ clicksLeft = 1
    /\ Constructed

\* processScript is synchronous: once called it runs to its end, no other
\* handler or timer can keep it from taking its next step
FairSpec == InitScan /\ [][Next]_vars /\ WF_vars(ScanStep)

----------------------------------------------------------------------------
(* A session of the component: it starts as constructed, onMounted loads   *)
(* the dictionaries, the user edits the two text areas and clicks Process  *)
(* Script up to MaxCalls times.  No handler runs while processScript scans.*)

SessionTexts ==
    { << >>, << "n", "n" >>, << "n", " ", "n" >>, << "h", "n", "h" >>,
      << "a", "\n", "h" >> }

SessionLexicons ==
    { Lexicon(<< << "n" >>, << "n", "h" >> >>),
      Lexicon(<< << "h" >>, << "n" >>, << "n", "n" >> >>) }

SessionCsvInputs ==
    { << >>, << Row(<< "n" >>) >>, << Row(<< "h" >>), Row(<< >>), Row(<< "h" >>) >> }

InitSession ==
    /\ ccCedict = << >>
    /\ csvDictionary = << >>
    /\ scriptInput = << >>
    /\ clicksLeft = MaxCalls
    /\ Constructed

\* onMounted: ccCedict.value = JSON.parse(...), once
LoadCedict ==
    /\ pc = "idle"
    /\ ccCedict = << >>
    /\ ccCedict' \in SessionLexicons
    /\ UNCHANGED << csvDictionary, scriptInput, processedOutput, unknownWords,
                    pc, locals, outcome, before, clicksLeft >>

\* parseCsvData, from onMounted or the Dictionary text area's change event
parseCsvData ==
    /\ pc = "idle"
    /\ \E rows \in SessionCsvInputs :
          csvDictionary' = ParseRows(rows, << >>)
    /\ UNCHANGED << ccCedict, scriptInput, processedOutput, unknownWords,
                    pc, locals, outcome, before, clicksLeft >>

\* v-model="scriptInput": the user edits the Script Text area
EditScript ==
    /\ pc = "idle"
    /\ scriptInput' \in SessionTexts
    /\ UNCHANGED << ccCedict, csvDictionary, processedOutput, unknownWords,
                    pc, locals, outcome, before, clicksLeft >>

NextSession ==
    \/ LoadCedict
    \/ parseCsvData
    \/ EditScript
    \/ Next

SpecSession == InitSession /\ [][NextSession]_vars

----------------------------------------------------------------------------
(* Vocabulary of the properties. *)

\* the last call of processScript ran the scan to its end
Done == pc = "idle" /\ outcome = "ok"

RECURSIVE Concat(_)
Concat(strings) ==
    IF strings = << >> THEN << >> ELSE Head(strings) \o Concat(Tail(strings))

\* the text fields of a segment sequence
TextsOf(segs) == [k \in 1..Len(segs) |-> segs[k].text]

\* the 0-based positions the iterations of the given branches consumed
PositionsOf(branches) ==
    UNION {{log[k].at + d : d \in 0..(log[k].len - 1)} :
              k \in {j \in 1..Len(log) : log[j].branch \in branches}}

\* text without the characters at the 0-based positions in dropped
RECURSIVE Without(_, _, _)
Without(text, dropped, at) ==
    IF at >= Len(text) THEN << >>
    ELSE (IF at \in dropped THEN << >> ELSE << text[at + 1] >>)
         \o Without(text, dropped, at + 1)

\* the number of segments emitted before iteration k
RECURSIVE EmittedBefore(_)
EmittedBefore(k) ==
    IF k <= 1 THEN 0 ELSE EmittedBefore(k - 1) + log[k - 1].emitted

\* the segments iteration k emitted
SegmentsOf(k) ==
    SubSeq(processedOutput, EmittedBefore(k) + 1, EmittedBefore(k) + log[k].emitted)

Ordinary(c) == ~IsNewline(c) /\ ~IsLatin(c) /\ ~IsBlank(c)

IsPrefix(p, w) == StartsWith(w, p, 0)

IsProperPrefix(p, w) == IsPrefix(p, w) /\ Len(p) < Len(w)

KeySet(dict) == {dict[k].key : k \in 1..Len(dict)}

\* the Lexicon keys the text continues with at 0-based position at
LexiconPrefixesAt(text, at) == {w \in KeySet(ccCedict) : StartsWith(text, w, at)}

LongestLength(words) ==
    CHOOSE n \in {Len(w) : w \in words} : \A w \in words : Len(w) <= n

Unmatched(segs) == {k \in 1..Len(segs) : segs[k].type = "not-found"}

Matched(segs) == {k \in 1..Len(segs) : segs[k].type = "found"}

----------------------------------------------------------------------------
(* C1 *)

\* C1, as stated: after a successful run the concatenation of the output
\* segments' texts is the input text, whatever the text and the lexicons.
C1_ExactReconstruction ==
    Done => Concat(TextsOf(processedOutput)) = scriptText

\* C1, amended: the iterations of the scan consume the text in consecutive
\* spans from 0 to its end; an iteration that took the whitespace branch or
\* the no-match skip emitted nothing, and every other iteration emitted
\* segments whose texts concatenate to exactly the span it consumed; the
\* output holds nothing else.  So every input character belongs to exactly
\* one segment, except those skipped as whitespace or as unmatched.
C1_ReconstructionUpToSkips ==
    Done =>
        /\ Len(processedOutput) = EmittedBefore(Len(log) + 1)
        /\ \A k \in 1..Len(log) :
              /\ log[k].at = (IF k = 1 THEN 0 ELSE log[k - 1].at + log[k - 1].len)
              /\ log[k].len >= 1
              /\ IF log[k].branch \in {"whitespace", "skip"}
                 THEN log[k].emitted = 0
                 ELSE Concat(TextsOf(SegmentsOf(k)))
                        = Substring(scriptText, log[k].at, log[k].at + log[k].len)
        /\ (IF log = << >> THEN 0 ELSE log[Len(log)].at + log[Len(log)].len)
              = Len(scriptText)

\* a run that skipped a blank, and split a Lexicon word into two segments
C1_Witness ==
    /\ Done
    /\ \E k \in 1..Len(log) : log[k].branch = "whitespace"
    /\ \E k \in 1..Len(log) : log[k].branch = "lexicon" /\ log[k].emitted = 2

----------------------------------------------------------------------------
(* C2 *)

\* C2, as stated: the concatenation of the output texts is the input text
\* without exactly the characters of the no-match skip branch.
C2_OnlyNoMatchDropped ==
    Done => Concat(TextsOf(processedOutput))
              = Without(scriptText, PositionsOf({"skip"}), 0)

\* C2, amended: the concatenation of the output texts is the input text
\* without exactly the characters consumed by the no-match skip branch and
\* by the whitespace branch; nothing consumed by the newline, Latin,
\* Lexicon or Curriculum branch is missing, duplicated or reordered.
C2_SkipAndWhitespaceDropped ==
    Done => Concat(TextsOf(processedOutput))
              = Without(scriptText, PositionsOf({"skip", "whitespace"}), 0)

\* a run with a blank, an unmatched character and an emitted segment
C2_Witness ==
    /\ Done
    /\ PositionsOf({"skip"}) # {}
    /\ PositionsOf({"whitespace"}) # {}
    /\ processedOutput # << >>

----------------------------------------------------------------------------
(* C3 *)

\* C3, as stated: every Matched segment of the output carries a non-empty
\* list of annotation records, and a Matched segment that is a Latin
\* letter carries a list of one annotation whose pinyin is the letter.
C3_MatchedCarriesAnnotationList ==
    Done =>
        \A k \in Matched(processedOutput) :
            LET seg == processedOutput[k]
            IN  /\ seg.data.js = "array"
                /\ Len(seg.data.items) >= 1
                /\ (Len(seg.text) = 1 /\ IsLatin(seg.text[1]))
                      => /\ Len(seg.data.items) = 1
                         /\ seg.data.items[1].pinyin = seg.text

----------------------------------------------------------------------------
(* C4 *)

\* C4, as stated: a call with an empty Lexicon emits no segment and leaves
\* the held segment sequence and the unknown-word report as they were.
C4_FailedCallChangesNothing ==
    outcome = "error" =>
        /\ processedOutput = before.processedOutput
        /\ unknownWords = before.unknownWords

\* C4, amended: a call with an empty Lexicon does no scan (the cursor, the
\* results and the scanned text stay as constructed); it appends exactly one
\* error segment, of type not-found and without annotations, to the held
\* segment sequence and leaves the segments held before and the
\* unknown-word report as they were; after n such calls in a row the
\* sequence holds n error segments.
C4_FailedCallAppendsErrorSegment ==
    /\ outcome = "error" =>
          /\ processedOutput
                = before.processedOutput
                  \o << [text |-> << "Error: Dictionary not loaded or empty." >>,
                         type |-> "not-found", data |-> Undefined] >>
          /\ unknownWords = before.unknownWords
          /\ Len(processedOutput) = MaxCalls - clicksLeft
          /\ pc = "idle" /\ i = 0 /\ results = << >> /\ log = << >>
    /\ (Len(Keys(ccCedict)) = 0 /\ outcome = "none") => processedOutput = << >>

\* two failed calls in a row, whatever the CurriculumLexicon and the text
C4_Witness ==
    /\ outcome = "error"
    /\ Len(processedOutput) >= 2
    /\ csvDictionary # << >>
    /\ scriptInput # << >>

----------------------------------------------------------------------------
(* C5 *)

\* C5, as stated: when the text is a CurriculumLexicon key, the output of a
\* run holds no Unmatched segment and the unknown-word report is empty.
C5_CurriculumKeyAlwaysKnown ==
    (Done /\ Has(csvDictionary, scriptText)) =>
        /\ Unmatched(processedOutput) = {}
        /\ unknownWords = << >>

\* the case C5 holds in: the text w is a CurriculumLexicon key, its first
\* character is no newline, Latin letter or blank, and either w is a
\* Lexicon key too or no proper prefix of w is a key of either lexicon
C5_Covered ==
    /\ Has(csvDictionary, scriptText)
    /\ scriptText # << >>
    /\ Ordinary(scriptText[1])
    /\ \/ scriptText \in KeySet(ccCedict)
       \/ \A p \in KeySet(ccCedict) \cup KeySet(csvDictionary) :
             ~IsProperPrefix(p, scriptText)

\* C5, amended: in the covered case the output holds no Unmatched segment
\* and the unknown-word report is empty.
C5_CurriculumKeyKnownWhenConsumedWhole ==
    (Done /\ C5_Covered) =>
        /\ Unmatched(processedOutput) = {}
        /\ unknownWords = << >>

\* a covered word that the Lexicon does not hold, under a non-empty Lexicon
C5_Witness ==
    /\ Done
    /\ C5_Covered
    /\ scriptText \notin KeySet(ccCedict)
    /\ Len(scriptText) = 2
    /\ Len(processedOutput) = 1

----------------------------------------------------------------------------
(* C6 *)

\* the one segment C6 expects for the word w
C6_Expected(w) ==
    << [text |-> w, type |-> "found", data |-> Get(csvDictionary, w)] >>

\* C6, as stated: when the text is a key of both lexicons the output is one
\* Matched segment with that text and the CurriculumLexicon's entry list.
C6_CurriculumPrecedence ==
    (Done /\ Has(csvDictionary, scriptText) /\ Has(ccCedict, scriptText)) =>
        processedOutput = C6_Expected(scriptText)

\* C6, amended: the same for every such word whose first character is no
\* newline, Latin letter or blank.
C6_CurriculumPrecedenceOrdinaryStart ==
    (Done /\ Has(csvDictionary, scriptText) /\ Has(ccCedict, scriptText)
          /\ Ordinary(scriptText[1])) =>
        /\ processedOutput = C6_Expected(scriptText)
        /\ processedOutput[1].data # Get(ccCedict, scriptText)
        /\ processedOutput[1].data.js = "array"

\* a two-character word held by both lexicons, the Lexicon holding a
\* shorter key as well
C6_Witness ==
    /\ Done
    /\ Has(csvDictionary, scriptText)
    /\ Has(ccCedict, scriptText)
    /\ Ordinary(scriptText[1])
    /\ Len(scriptText) = 2
    /\ Len(ccCedict) = 2

----------------------------------------------------------------------------
(* C7 *)

\* the split points of word whose two sides are CurriculumLexicon keys
C7_Splits(word) ==
    {k \in 1..(Len(word) - 1) :
        /\ Substring(word, 0, k) \in KeySet(csvDictionary)
        /\ Substring(word, k, Len(word)) \in KeySet(csvDictionary)}

\* the longest Lexicon key at the cursor
C7_Word ==
    CHOOSE w \in LexiconPrefixesAt(scriptText, i) :
        Len(w) = LongestLength(LexiconPrefixesAt(scriptText, i))

\* the cursor is at a Lexicon match that is no CurriculumLexicon key and
\* has a split into two CurriculumLexicon keys
C7_AtSplit ==
    /\ pc = "scan" /\ i < Len(scriptText) /\ Ordinary(scriptText[i + 1])
    /\ LexiconPrefixesAt(scriptText, i) # {}
    /\ C7_Word \notin KeySet(csvDictionary)
    /\ C7_Splits(C7_Word) # {}

\* C7: at such a cursor the iteration appends exactly two Matched segments,
\* word[0:k] then word[k:L] for the smallest such k, each with its own
\* CurriculumLexicon entry list, and does not add to the unknown words.
C7_SplitPreference ==
    [][C7_AtSplit =>
          LET word == C7_Word
              k == CHOOSE k \in C7_Splits(word) : \A j \in C7_Splits(word) : k <= j
              left == Substring(word, 0, k)
              right == Substring(word, k, Len(word))
          IN  /\ results' = results \o
                    << [text |-> left, type |-> "found",
                        data |-> Get(csvDictionary, left)],
                       [text |-> right, type |-> "found",
                        data |-> Get(csvDictionary, right)] >>
              /\ unknownSet' = unknownSet
              /\ i' = i + Len(word)]_vars

\* a three-character Lexicon word with two valid split points has been
\* split
C7_Witness ==
    /\ pc = "scan"
    /\ log # << >>
    /\ LET last == log[Len(log)]
           word == Substring(scriptText, last.at, last.at + last.len)
       IN  /\ last.branch = "lexicon"
           /\ last.emitted = 2
           /\ Cardinality(C7_Splits(word)) = 2

----------------------------------------------------------------------------
(* C8 *)

\* the cursor is at a character that is no newline, Latin letter or blank,
\* and some Lexicon key is a prefix of the rest of the text
C8_AtLexiconMatch ==
    /\ pc = "scan" /\ i < Len(scriptText) /\ Ordinary(scriptText[i + 1])
    /\ LexiconPrefixesAt(scriptText, i) # {}

\* C8: at such a cursor the iteration consumes a Lexicon key of maximal
\* length among the Lexicon keys that are prefixes there, and the cursor
\* advances by exactly that length.
C8_LongestMatchWins ==
    [][C8_AtLexiconMatch =>
          LET L == LongestLength(LexiconPrefixesAt(scriptText, i))
          IN  /\ i' = i + L
              /\ log' = Append(log, [at |-> i, len |-> L, branch |-> "lexicon",
                                     emitted |-> log'[Len(log')].emitted])
              /\ Concat(TextsOf(SubSeq(results', Len(results) + 1, Len(results'))))
                    = Substring(scriptText, i, i + L)
              /\ Substring(scriptText, i, i + L) \in KeySet(ccCedict)]_vars

\* a two-character Lexicon key was consumed where a one-character key
\* matched as well
C8_Witness ==
    /\ pc = "scan"
    /\ log # << >>
    /\ LET last == log[Len(log)]
       IN  /\ last.branch = "lexicon"
           /\ last.len = 2
           /\ Cardinality(LexiconPrefixesAt(scriptText, last.at)) = 2

----------------------------------------------------------------------------
(* C9 *)

\* the distinct texts of the Unmatched segments of the output
C9_UnmatchedTexts == {processedOutput[k].text : k \in Unmatched(processedOutput)}

\* where the Unmatched word w first occurs in the output
C9_FirstOccurrence(w) ==
    CHOOSE k \in Unmatched(processedOutput) :
        /\ processedOutput[k].text = w
        /\ \A j \in Unmatched(processedOutput) :
              processedOutput[j].text = w => k <= j

\* C9: after a successful run the unknown-word report holds one record per
\* distinct Unmatched text of that run's output and nothing else, in the
\* order of the words' first occurrences, ranked 1..N, each with the pinyin
\* and meaning of the word's first Lexicon entry.
C9_UnknownWordReport ==
    Done =>
        /\ Len(unknownWords) = Cardinality(C9_UnmatchedTexts)
        /\ \A k \in 1..Len(unknownWords) :
              LET record == unknownWords[k]
              IN  /\ record.index = k
                  /\ record.word \in C9_UnmatchedTexts
                  /\ record.pinyin = << "p1" >> \o record.word
                  /\ record.meaning = << "m1" >> \o record.word
                  /\ \A j \in 1..(k - 1) :
                        C9_FirstOccurrence(unknownWords[j].word)
                            < C9_FirstOccurrence(record.word)

\* a run with three Unmatched segments of two distinct words, after an
\* earlier run that reported a word this run's output does not hold
C9_Witness ==
    /\ Done
    /\ Cardinality(Unmatched(processedOutput)) = 3
    /\ Len(unknownWords) = 2
    /\ \E k \in 1..Len(before.unknownWords) :
          before.unknownWords[k].word \notin C9_UnmatchedTexts

----------------------------------------------------------------------------
(* C10 *)

\* C10: a scan, once begun, ends, with the cursor exactly at the end of
\* the text: every iteration strictly increases the cursor, by 1 at a
\* newline, Latin letter, blank or unmatched character and by the length of
\* the matched word otherwise, never past the end of the text, and the
\* loop is left only when the cursor is at the end.
C10_ScanTerminates ==
    /\ [][(pc = "scan" /\ i < Len(scriptText)) =>
             /\ pc' = "scan"
             /\ i' > i
             /\ i' <= Len(scriptText)
             /\ scriptText' = scriptText
             /\ LET last == log'[Len(log')]
                IN  /\ Len(log') = Len(log) + 1
                    /\ i' = i + last.len
                    /\ last.branch \in {"newline", "latin", "whitespace", "skip"}
                          => last.len = 1
                    /\ last.branch \in {"lexicon", "curriculum"}
                          => last.len >= 1]_vars
    /\ [][(pc = "scan" /\ pc' = "idle") => (i = Len(scriptText) /\ i' = i)]_vars
    /\ [](pc = "scan" => i <= Len(scriptText))
    /\ [](pc = "scan" => <>(pc = "idle" /\ outcome = "ok" /\ i = Len(scriptText)))

\* a finished run whose scan consumed a word of two characters and a
\* single character
C10_Witness ==
    /\ Done
    /\ i = Len(scriptText)
    /\ \E k \in 1..Len(log) : log[k].len = 2
    /\ \E k \in 1..Len(log) : log[k].len = 1

=============================================================================
